---- MODULE Spec2Model ----
(***************************************************************************)
(* A model of the ZipRecruiter scraper: the job-card extractor             *)
(* (improved_ziprecruiter_scraper.py) and the runner with its              *)
(* post-processing pass (run_improved_ziprecruiter.py).                    *)
(*                                                                         *)
(* Text is modelled as a sequence of word tokens.  A regular expression    *)
(* search is modelled by the set of vocabulary words the expression        *)
(* matches.  A Python value that may be None is modelled as a sequence of  *)
(* length at most one: None is <<>> and a value v is <<v>>.  A Python      *)
(* dict is a function whose DOMAIN is the set of keys present.             *)
(***************************************************************************)
EXTENDS Integers, Sequences, FiniteSets, TLC

VARIABLES
    pc,         \* the position of control in the function being run
    args,       \* the arguments of the call
    ret,        \* the outcome of the call
    self,       \* the attributes of the scraper object
    job_cards,  \* extract_job_listings: the selected job cards
    idx,        \* extract_job_listings: the number of job cards processed
    jobs,       \* the list of job dictionaries
    log,        \* what was logged for each processed card, or by main
    now,        \* the clock read by datetime.now()
    scraped,    \* main: the list as scraper.scrape returned it
    json_file,  \* main: the content of the JSON file, None before it is written
    csv_file    \* main: the content of the CSV file, None before it is written

vars == <<pc, args, ret, self, job_cards, idx, jobs, log, now, scraped, json_file, csv_file>>

\* The variables of main that extract_job_listings leaves alone
main_vars == <<scraped, json_file, csv_file>>

\* The variables a call of a pure function leaves alone
listing_vars == <<self, job_cards, idx, jobs, log, now, main_vars>>

(***************************************************************************)
(* Python values                                                           *)
(***************************************************************************)
None == <<>>

Some(v) == <<v>>

\* Python truthiness of an optional string: "not x" is Falsy(x)
Falsy(x) == x = None \/ x[1] = <<>>

\* All sequences over S of length at most n
SeqUpTo(S, n) == UNION {[1..k -> S] : k \in 0..n}

\* The empty dict
EmptyDict == [k \in {} |-> k]

\* The state of a run in which main is not running
NoMain ==
    /\ scraped = <<>>
    /\ json_file = None
    /\ csv_file = None

\* The state of a run in which no job listing is being extracted
NoListing ==
    /\ self = EmptyDict
    /\ job_cards = <<>>
    /\ idx = 0
    /\ jobs = <<>>
    /\ log = <<>>
    /\ now = 0
    /\ NoMain

(***************************************************************************)
(* Text helpers                                                            *)
(***************************************************************************)
Whitespace == {" ", "\n", "\t"}

\* Index of the first non-whitespace token at or after i (Len + 1 if none)
RECURSIVE SkipWs(_, _)
SkipWs(text, i) ==
    IF i > Len(text) THEN i
    ELSE IF text[i] \in Whitespace THEN SkipWs(text, i + 1)
    ELSE i

\* Index of the last non-whitespace token at or before i (0 if none)
RECURSIVE SkipWsBack(_, _)
SkipWsBack(text, i) ==
    IF i < 1 THEN 0
    ELSE IF text[i] \in Whitespace THEN SkipWsBack(text, i - 1)
    ELSE i

\* str.strip()
Strip(text) == SubSeq(text, SkipWs(text, 1), SkipWsBack(text, Len(text)))

\* The token at position i, "" past the end
At(text, i) == IF i \in DOMAIN text THEN text[i] ELSE ""

(***************************************************************************)
(* extract_salary (improved_ziprecruiter_scraper.py)                       *)
(*                                                                         *)
(* A job card carries, for each salary selector, the text of the first     *)
(* element the selector matches (None if it matches nothing), the text of  *)
(* the whole card, and the set of library calls that raise on this card.   *)
(***************************************************************************)
\* len(salary_selectors)
NumSalarySelectors == 11

NumberTokens == {"30,000", "45000"}

\* float(n.replace(',', ''))
NumberValue(tok) == IF tok = "30,000" THEN 30000 ELSE 45000

CurrencySymbols == <<"£", "$", "€">>

CurrencyWords == {"GBP", "USD", "EUR", "pounds", "euros", "dollars"}

PeriodUnits == {"year", "annum", "month", "hour", "yr", "pa"}

IsNumber(text, i) == At(text, i) \in NumberTokens

\* <symbol>\s*\d+[,\d]*\s*(?:-\s*<symbol>\s*\d+[,\d]*)?
\*     (?:\s*(?:per|a|/)\s*(?:year|annum|month|hour|yr|pa|...))?
\* anchored at i: the index after the match, 0 if no match
SymbolPatternEnd(text, i, symbol) ==
    LET n1 == SkipWs(text, i + 1)
        e1 == SkipWs(text, n1 + 1)
        c2 == SkipWs(text, e1 + 1)
        n2 == SkipWs(text, c2 + 1)
        e2 == IF At(text, e1) = "-" /\ At(text, c2) = symbol /\ IsNumber(text, n2)
              THEN n2 + 1 ELSE e1
        p  == SkipWs(text, e2)
        u  == SkipWs(text, p + 1)
    IN  IF At(text, i) = symbol /\ IsNumber(text, n1)
        THEN IF At(text, p) \in {"per", "a", "/"} /\ At(text, u) \in PeriodUnits
             THEN u + 1 ELSE e2
        ELSE 0

\* \d+[,\d]*\s*(?:-\s*\d+[,\d]*)?\s*(?:GBP|USD|EUR|pounds|euros|dollars)
WordPatternEnd(text, i) ==
    LET e1 == SkipWs(text, i + 1)
        n2 == SkipWs(text, e1 + 1)
        e2 == IF At(text, e1) = "-" /\ IsNumber(text, n2) THEN n2 + 1 ELSE e1
        w  == SkipWs(text, e2)
    IN  IF IsNumber(text, i) /\ At(text, w) \in CurrencyWords THEN w + 1 ELSE 0

\* [:\s]*
RECURSIVE SkipWsColon(_, _)
SkipWsColon(text, i) ==
    IF i > Len(text) THEN i
    ELSE IF text[i] \in Whitespace \cup {":"} THEN SkipWsColon(text, i + 1)
    ELSE i

IsSymbol(tok) == \E k \in DOMAIN CurrencySymbols : tok = CurrencySymbols[k]

\* (?:salary|pay|compensation)[:\s]*[£$€]?\s*\d+[,\d]*\s*(?:-\s*[£$€]?\s*\d+[,\d]*)?
KeywordPatternEnd(text, i) ==
    LET s1 == SkipWsColon(text, i + 1)
        n1 == SkipWs(text, IF IsSymbol(At(text, s1)) THEN s1 + 1 ELSE s1)
        e1 == SkipWs(text, n1 + 1)
        s2 == SkipWs(text, e1 + 1)
        n2 == SkipWs(text, IF IsSymbol(At(text, s2)) THEN s2 + 1 ELSE s2)
    IN  IF At(text, i) \in {"salary", "Salary", "pay", "compensation"} /\ IsNumber(text, n1)
        THEN IF At(text, e1) = "-" /\ IsNumber(text, n2) THEN n2 + 1 ELSE e1
        ELSE 0

\* len(patterns)
NumSalaryPatterns == 5

\* patterns[k] anchored at i
PatternEnd(text, i, k) ==
    IF k <= 3 THEN SymbolPatternEnd(text, i, CurrencySymbols[k])
    ELSE IF k = 4 THEN WordPatternEnd(text, i)
    ELSE KeywordPatternEnd(text, i)

\* re.search(patterns[k], full_text, re.IGNORECASE): the leftmost match, as
\* match.group(0), or None
SearchPattern(text, k) ==
    LET S == {i \in DOMAIN text : PatternEnd(text, i, k) # 0}
    IN  IF S = {} THEN None
        ELSE LET i == CHOOSE x \in S : \A y \in S : x <= y
             IN  Some(SubSeq(text, i, PatternEnd(text, i, k) - 1))

\* Lines 195-203: the first selector, in order, whose element has non-empty
\* stripped text; a selector whose lookup raises is logged and passed over
SalaryFromSelectors(job_card) ==
    LET S == {k \in 1..NumSalarySelectors :
                 /\ [step |-> "select_one", selector |-> k] \notin job_card.raises
                 /\ job_card.salary_elems[k] # None
                 /\ Strip(job_card.salary_elems[k][1]) # <<>>}
    IN  IF S = {} THEN None
        ELSE Some(Strip(job_card.salary_elems[CHOOSE k \in S : \A j \in S : k <= j][1]))

\* Lines 207-227: the first pattern, in order, found in the whole card text;
\* an exception is logged and leaves salary_text as it was
SalaryFromFullText(job_card) ==
    LET S == {k \in 1..NumSalaryPatterns : SearchPattern(job_card.full_text, k) # None}
    IN  IF [step |-> "get_text"] \in job_card.raises \/ S = {} THEN None
        ELSE Some(Strip(SearchPattern(job_card.full_text, CHOOSE k \in S : \A j \in S : k <= j)[1]))

\* Lines 236-237: newlines and tabs to spaces, runs of whitespace to one space
RECURSIVE CollapseWs(_)
CollapseWs(text) ==
    IF text = <<>> THEN <<>>
    ELSE IF Head(text) \in Whitespace
         THEN IF Len(text) > 1 /\ text[2] \in Whitespace THEN CollapseWs(Tail(text))
              ELSE <<" ">> \o CollapseWs(Tail(text))
         ELSE <<Head(text)>> \o CollapseWs(Tail(text))

CleanSalaryText(text) == Strip(CollapseWs(text))

\* Lines 250-258: the leftmost currency symbol or word
SalaryCurrency(text) ==
    LET S == {i \in DOMAIN text : IsSymbol(text[i]) \/ text[i] \in CurrencyWords}
        c == text[CHOOSE i \in S : \A j \in S : i <= j]
    IN  IF S = {} THEN None
        ELSE IF c \in {"£", "pounds", "GBP"} THEN Some("GBP")
        ELSE IF c \in {"$", "dollars", "USD"} THEN Some("USD")
        ELSE Some("EUR")

\* Lines 261-274: per\s+(year|annum|month|hour|day|week) and the one-word forms
SalaryPeriod(text) ==
    LET unit(i) == IF text[i] = "per" /\ At(text, i + 1) \in Whitespace
                   THEN At(text, SkipWs(text, i + 1)) ELSE text[i]
        isPeriod(i) ==
            \/ /\ text[i] = "per"
               /\ At(text, i + 1) \in Whitespace
               /\ At(text, SkipWs(text, i + 1)) \in {"year", "annum", "month", "hour", "day", "week"}
            \/ text[i] \in {"pa", "yearly", "monthly", "hourly", "annual"}
        S == {i \in DOMAIN text : isPeriod(i)}
        u == unit(CHOOSE i \in S : \A j \in S : i <= j)
    IN  IF S = {} THEN None
        ELSE IF u \in {"year", "annum", "pa", "yearly", "annual"} THEN Some("yearly")
        ELSE IF u \in {"month", "monthly"} THEN Some("monthly")
        ELSE IF u \in {"hour", "hourly"} THEN Some("hourly")
        ELSE IF u = "day" THEN Some("daily")
        ELSE Some("weekly")

\* Lines 277-280: re.findall of the number expression, converted to float
SalaryNumbers(text) ==
    {NumberValue(text[i]) : i \in {j \in DOMAIN text : text[j] \in NumberTokens}}

SalaryNumberCount(text) == Cardinality({i \in DOMAIN text : text[i] \in NumberTokens})

Min(S) == CHOOSE x \in S : \A y \in S : x <= y

Max(S) == CHOOSE x \in S : \A y \in S : x >= y

\* Lines 234-295: the salary dictionary; if the processing raises, the
\* handler returns the raw text alone
ProcessSalaryText(salary_text, raises) ==
    LET text == CleanSalaryText(salary_text)
        n == SalaryNumberCount(text)
    IN  IF [step |-> "float"] \in raises /\ n > 0
        THEN [text |-> text]
        ELSE [text |-> text,
              currency |-> SalaryCurrency(text),
              min |-> IF n = 0 THEN None ELSE Some(Min(SalaryNumbers(text))),
              max |-> IF n >= 2 THEN Some(Max(SalaryNumbers(text))) ELSE None,
              period |-> SalaryPeriod(text),
              is_range |-> n >= 2]

\* The outcome of a call: a returned value or an exception
Return(v) == [raised |-> FALSE, value |-> v]

Raise == [raised |-> TRUE, value |-> None]

\* As extract_salary, the full-text search left outside any try block
extract_salary_unguarded(job_card) ==
    LET by_selector == SalaryFromSelectors(job_card)
        salary_text == IF by_selector # None THEN by_selector ELSE SalaryFromFullText(job_card)
    IN  IF by_selector = None /\ [step |-> "get_text"] \in job_card.raises THEN Raise
        ELSE IF salary_text = None THEN Return(None)
        ELSE Return(Some(ProcessSalaryText(salary_text[1], job_card.raises)))

extract_salary(job_card) ==
    LET by_selector == SalaryFromSelectors(job_card)
        salary_text == IF by_selector # None THEN by_selector ELSE SalaryFromFullText(job_card)
    IN  IF salary_text = None THEN Return(None)
        ELSE Return(Some(ProcessSalaryText(salary_text[1], job_card.raises)))

(***************************************************************************)
(* Specification of extract_salary over bounded job cards                  *)
(***************************************************************************)
MaxSalaryElems == 2

MaxFullTextLen == 2

\* Element texts: blank, a salary line without any number, a yearly range
SalaryElemTexts ==
    {<<" ", "\n">>,
     <<"\n", "Competitive", " ", "\n", "salary", " ">>,
     <<"45000", "\t", " ", "-", " ", "30,000", " ", "EUR", " ", "per", " ", "annum", "\n">>}

FullTextVocabulary == {" ", "$", "30,000", "Salary", "GBP"}

FullTexts ==
    SeqUpTo(FullTextVocabulary, MaxFullTextLen)
        \cup {<<"Pay", " ", "£", "30,000", "\n", "-", " ", "£", "45000", " ", "per", " ", "year", ".">>}

\* The assignments of element texts to at most MaxSalaryElems selectors
SalaryElems ==
    UNION {{[k \in 1..NumSalarySelectors |-> IF k \in P THEN Some(g[k]) ELSE None] :
                g \in [P -> SalaryElemTexts]} :
           P \in {Q \in SUBSET (1..NumSalarySelectors) : Cardinality(Q) <= MaxSalaryElems}}

\* The single faults that can affect the card: a lookup of a selector that
\* has an element, the text of the card, the number conversion
SalaryFaults(elems) ==
    {{}, {[step |-> "get_text"]}, {[step |-> "float"]}}
        \cup {{[step |-> "select_one", selector |-> k]} : k \in {j \in DOMAIN elems : elems[j] # None}}

InitSalary ==
    /\ pc = "call"
    /\ \E elems \in SalaryElems, text \in FullTexts :
          \E raises \in SalaryFaults(elems) :
             args = [salary_elems |-> elems, full_text |-> text, raises |-> raises]
    /\ ret = Return(None)
    /\ NoListing

CallExtractSalary ==
    /\ pc = "call"
    /\ ret' = extract_salary(args)
    /\ pc' = "return"
    /\ UNCHANGED <<args, listing_vars>>

SpecSalary == InitSalary /\ [][CallExtractSalary]_vars

\* Some salary selector yields non-empty text on the card
SelectorYieldsText(job_card) ==
    \E k \in 1..NumSalarySelectors :
        /\ [step |-> "select_one", selector |-> k] \notin job_card.raises
        /\ job_card.salary_elems[k] # None
        /\ \E i \in DOMAIN job_card.salary_elems[k][1] : job_card.salary_elems[k][1][i] \notin Whitespace

\* Some full-text pattern yields text on the card
PatternYieldsText(job_card) ==
    /\ [step |-> "get_text"] \notin job_card.raises
    /\ \E k \in 1..NumSalaryPatterns, i \in DOMAIN job_card.full_text :
          PatternEnd(job_card.full_text, i, k) # 0

SalaryKeys == {"text", "currency", "min", "max", "period", "is_range"}

\* C8: extract_salary never raises; it returns None exactly when neither a
\* salary selector nor a full-text pattern yields non-empty text, and
\* otherwise a dictionary with the key "text": all six keys, or "text" alone.
C8_SalaryResult ==
    pc = "return" =>
        /\ ~ret.raised
        /\ (ret.value = None) <=> (~SelectorYieldsText(args) /\ ~PatternYieldsText(args))
        /\ ret.value # None =>
              /\ "text" \in DOMAIN ret.value[1]
              /\ ret.value[1].text # <<>>
              /\ DOMAIN ret.value[1] \in {SalaryKeys, {"text"}}

\* The text of the card raises and no selector has text: None is returned
C8_WitnessCaught ==
    /\ pc = "return"
    /\ [step |-> "get_text"] \in args.raises
    /\ \E i \in DOMAIN args.full_text : PatternEnd(args.full_text, i, 2) # 0
    /\ ret = Return(None)

(***************************************************************************)
(* extract_job_type (run_improved_ziprecruiter.py)                         *)
(***************************************************************************)
\* The keys of job_type_patterns in dict (insertion) order
StandardTypes == <<"Full-time", "Part-time", "Contract", "Freelance", "Internship", "Temporary", "Volunteer">>

\* str.lower() on the vocabulary
Lower(tok) ==
    CASE tok = "Permanent" -> "permanent"
      [] tok = "Contract"  -> "contract"
      [] tok = "Seasonal"  -> "seasonal"
      [] tok = "Python" -> "python"
      [] tok = "JavaScript" -> "javascript"
      [] tok = "REST API" -> "rest api"
      [] tok = "Requirements" -> "requirements"
      [] tok = "Benefits" -> "benefits"
      [] tok = "Years" -> "years"
      [] tok = "Skills" -> "skills"
      [] tok = "Experience" -> "experience"
      [] tok = "Company" -> "company"
      [] tok = "Ltd" -> "ltd"
      [] tok = "Acme" -> "acme"
      [] tok = "Unknown" -> "unknown"
      [] tok = "Job" -> "job"
      [] tok = "About" -> "about"
      [] tok = "Work" -> "work"
      [] tok = "Join" -> "join"
      [] tok = "Leeds" -> "leeds"
      [] tok = "UK" -> "uk"
      [] tok = "X" -> "x"
      [] tok = "Location:" -> "location:"
      [] tok = "Developer" -> "developer"
      [] OTHER -> tok

LowerText(text) == [i \in DOMAIN text |-> Lower(text[i])]

\* The vocabulary words matched by some pattern of each standard type
\* (the search is case-insensitive: re.IGNORECASE)
job_type_patterns(standard_type) ==
    CASE standard_type = "Full-time"  -> {"full-time", "permanent", "Permanent"}
      [] standard_type = "Part-time"  -> {"part-time"}
      [] standard_type = "Contract"   -> {"contract", "Contract", "temporary", "ltd", "Ltd"}
      [] standard_type = "Freelance"  -> {"freelance"}
      [] standard_type = "Internship" -> {"internship"}
      [] standard_type = "Temporary"  -> {"temporary", "seasonal", "Seasonal"}
      [] standard_type = "Volunteer"  -> {"volunteer"}

\* re.search(pattern, text) for some pattern of standard_type
TypeMatches(standard_type, text) ==
    \E i \in DOMAIN text : text[i] \in job_type_patterns(standard_type)

\* The nested loops "for standard_type ... for pattern ... return": the first
\* standard type, in dict order, one of whose patterns matches; 0 if none
FirstTypeFrom(text, k) ==
    LET S == {i \in k..Len(StandardTypes) : TypeMatches(StandardTypes[i], text)}
    IN  IF S = {} THEN 0 ELSE CHOOSE i \in S : \A j \in S : i <= j

FirstType(text) == FirstTypeFrom(text, 1)

\* The tokens [^.,:;]+ cannot cross
Delimiters == {"."}

\* The token matched by (employment|job|position|work)\s+type
TypeMarkers == {"job type"}

\* Position of the first delimiter at or after i, Len+1 if none
RECURSIVE NextDelimiter(_, _)
NextDelimiter(text, i) ==
    IF i > Len(text) THEN i
    ELSE IF text[i] \in Delimiters THEN i
    ELSE NextDelimiter(text, i + 1)

\* re.findall of the job-type context expression: the non-overlapping
\* matches from left to right, each giving the run of tokens after the marker
RECURSIVE JobTypeContexts(_, _)
JobTypeContexts(text, i) ==
    IF i > Len(text) THEN <<>>
    ELSE IF text[i] \in TypeMarkers
         THEN LET j == NextDelimiter(text, i + 1)
              IN  IF j = i + 1 THEN JobTypeContexts(text, i + 1)
                  ELSE <<SubSeq(text, i + 1, j - 1)>> \o JobTypeContexts(text, j)
         ELSE JobTypeContexts(text, i + 1)

\* "for _, context in job_type_contexts": the first context that decides
RECURSIVE FirstContextType(_)
FirstContextType(contexts) ==
    IF contexts = <<>> THEN 0
    ELSE IF FirstType(contexts[1]) # 0 THEN FirstType(contexts[1])
    ELSE FirstContextType(Tail(contexts))

\* A slip in the description branch: the whole description is searched
\* before the contexts
DescriptionTypeWhole(description_text) ==
    LET lowered == LowerText(description_text)
        ctx == FirstContextType(JobTypeContexts(lowered, 1))
    IN  IF FirstType(lowered) # 0 THEN FirstType(lowered) ELSE ctx

\* The description branch of extract_job_type
DescriptionType(description_text) ==
    LET lowered == LowerText(description_text)
        ctx == FirstContextType(JobTypeContexts(lowered, 1))
    IN  IF ctx # 0 THEN ctx ELSE FirstType(lowered)

\* A slip in the early return: "or" for "and"
extract_job_type_or(job_type_text, description_text) ==
    IF Falsy(job_type_text) \/ Falsy(description_text) THEN ""
    ELSE LET t1 == FirstType(LowerText(job_type_text[1]))
             t2 == DescriptionType(description_text[1])
         IN  IF t1 # 0 THEN StandardTypes[t1]
             ELSE IF t2 # 0 THEN StandardTypes[t2]
             ELSE "Full-time"

extract_job_type(job_type_text, description_text) ==
    IF Falsy(job_type_text) /\ Falsy(description_text) THEN ""
    ELSE LET t1 == IF Falsy(job_type_text) THEN 0 ELSE FirstType(LowerText(job_type_text[1]))
             t2 == IF Falsy(description_text) THEN 0 ELSE DescriptionType(description_text[1])
         IN  IF t1 # 0 THEN StandardTypes[t1]
             ELSE IF t2 # 0 THEN StandardTypes[t2]
             ELSE "Full-time"

(***************************************************************************)
(* Specification of extract_job_type over bounded inputs                   *)
(***************************************************************************)
MaxTypeLen == 1

MaxDescLen == 3

TypeVocabulary == {"Permanent", "part-time", "temporary", "Seasonal", "engineer"}

DescVocabulary == {"job type", ".", "permanent", "part-time", "temporary", "seasonal", "volunteer", "engineer"}

JobTypeTexts == {None} \cup {Some(t) : t \in SeqUpTo(TypeVocabulary, MaxTypeLen)}

DescriptionTexts == {None} \cup {Some(t) : t \in SeqUpTo(DescVocabulary, MaxDescLen)}

InitJobType ==
    /\ pc = "call"
    /\ args \in [job_type_text : JobTypeTexts, description_text : DescriptionTexts]
    /\ ret = ""
    /\ NoListing

CallExtractJobType ==
    /\ pc = "call"
    /\ ret' = extract_job_type(args.job_type_text, args.description_text)
    /\ pc' = "return"
    /\ UNCHANGED <<args, listing_vars>>

SpecJobType == InitJobType /\ [][CallExtractJobType]_vars

\* No pattern of any standard type matches the (optional) text
NoTypePattern(x) ==
    Falsy(x) \/ \A i \in DOMAIN StandardTypes : ~TypeMatches(StandardTypes[i], LowerText(x[1]))

\* C9: extract_job_type returns the empty string if and only if both inputs
\* are absent or empty; otherwise it returns one of the seven standard types,
\* and "Full-time" when no pattern matches either input.
C9_JobTypeResult ==
    pc = "return" =>
        /\ (ret = "") <=> (Falsy(args.job_type_text) /\ Falsy(args.description_text))
        /\ ret # "" => \E i \in DOMAIN StandardTypes : ret = StandardTypes[i]
        /\ (ret # "" /\ NoTypePattern(args.job_type_text) /\ NoTypePattern(args.description_text))
               => ret = "Full-time"

\* One input empty, the other non-empty with no matching pattern: the default
C9_Witness ==
    /\ pc = "return"
    /\ args.job_type_text = Some(<<>>)
    /\ args.description_text = Some(<<"engineer">>)
    /\ ret = "Full-time"

(***************************************************************************)
(* extract_job_listings (improved_ziprecruiter_scraper.py)                 *)
(*                                                                         *)
(* The parsed document is modelled by what the selectors return on it:     *)
(* for each job-card selector the list of elements it matches, and for     *)
(* the fallback the potential title elements, each with its chain of       *)
(* ancestors.  A job card is modelled by what the field selectors return   *)
(* on it: for each selector of a field, the text (or href) of the first    *)
(* element it matches, None if it matches nothing.                         *)
(***************************************************************************)
\* len(job_card_selectors)
NumCardSelectors == 10

\* potential_titles[:10]
TitleLimit == 10

\* range(3): the number of ancestors of a title that are looked at
AncestorLevels == 3

\* As SelectJobCards with the break left out: the last matching selector wins
SelectJobCardsLast(html_content) ==
    LET S == {k \in 1..NumCardSelectors :
                 k \notin html_content.select_raises /\ html_content.matches[k] # <<>>}
    IN  IF S = {} THEN <<>> ELSE html_content.matches[CHOOSE k \in S : \A j \in S : k >= j]

\* Lines 22-30: the elements matched by the first selector that matches any;
\* a selector whose lookup raises is logged and passed over
SelectJobCards(html_content) ==
    LET S == {k \in 1..NumCardSelectors :
                 k \notin html_content.select_raises /\ html_content.matches[k] # <<>>}
    IN  IF S = {} THEN <<>> ELSE html_content.matches[CHOOSE k \in S : \A j \in S : k <= j]

\* Lines 41-47: the first of the three nearest ancestors of a title that has
\* a class or is an article or a div (an ancestor is None if it does not
\* qualify, else the card it is)
TitleCard(ancestors) ==
    LET S == {l \in DOMAIN ancestors : l <= AncestorLevels /\ ancestors[l] # None}
    IN  IF S = {} THEN <<>> ELSE <<ancestors[CHOOSE l \in S : \A m \in S : l <= m][1]>>

\* Lines 36-47: the cards found from the first potential titles
RECURSIVE FallbackCardsOf(_)
FallbackCardsOf(titles) ==
    IF titles = <<>> THEN <<>>
    ELSE TitleCard(Head(titles)) \o FallbackCardsOf(Tail(titles))

FallbackJobCards(html_content) ==
    FallbackCardsOf(SubSeq(html_content.titles, 1,
                           IF Len(html_content.titles) < TitleLimit
                           THEN Len(html_content.titles) ELSE TitleLimit))

\* "for selector in ...: elem = job_card.select_one(selector);
\*  if elem and elem.text.strip(): ... = elem.text.strip(); break"
FirstElemText(elems) ==
    LET S == {k \in DOMAIN elems : elems[k] # None /\ Strip(elems[k][1]) # <<>>}
    IN  IF S = {} THEN None ELSE Some(Strip(elems[CHOOSE k \in S : \A j \in S : k <= j][1]))

\* Lines 87-92: the href of the first element that has a non-empty one
FirstHref(elems) ==
    LET S == {k \in DOMAIN elems : elems[k] # None /\ elems[k][1] # <<>>}
    IN  IF S = {} THEN None ELSE elems[CHOOSE k \in S : \A j \in S : k <= j]

HttpPrefixes == {"https://jobs.example", "https://www.ziprecruiter.com", "https://www.ziprecruiter.co.uk"}

\* job_url.startswith('http')
StartsWithHttp(url) == url # <<>> /\ url[1] \in HttpPrefixes

\* self.base_urls.get(country_code, 'https://www.ziprecruiter.com')
BaseUrl(slf, country_code) ==
    IF country_code \in DOMAIN slf.base_urls THEN slf.base_urls[country_code]
    ELSE "https://www.ziprecruiter.com"

\* A slip at lines 99-103: a URL that starts with "/" is kept as found
AbsoluteUrlKept(job_url, slf, country_code) ==
    IF StartsWithHttp(job_url) THEN job_url
    ELSE IF job_url[1] = "/" THEN job_url
    ELSE <<BaseUrl(slf, country_code), "/">> \o job_url

\* Lines 99-103
AbsoluteUrl(job_url, slf, country_code) ==
    IF StartsWithHttp(job_url) THEN job_url
    ELSE IF job_url[1] = "/" THEN <<BaseUrl(slf, country_code)>> \o job_url
    ELSE <<BaseUrl(slf, country_code), "/">> \o job_url

\* hashlib.md5(job_url.encode()).hexdigest(), taken to be free of collisions
Md5(job_url) == <<"md5">> \o job_url

\* A lookup for the field raises on this card
FieldRaises(job_card, field) == [step |-> "select_one", field |-> field] \in job_card.raises

\* The key with its value if there is one
KeyIf(key, value) == IF value = None THEN EmptyDict ELSE key :> value

\* The outcomes of the body of the loop over the cards
Skipped == [outcome |-> "skip", job |-> EmptyDict]

Failed == [outcome |-> "error", job |-> EmptyDict]

Extracted(job) == [outcome |-> "job", job |-> job]

\* Lines 62-169: the body of the loop for one card.  The card is skipped
\* (continue) when sponsored, without title or without URL; any exception
\* is caught by the handler at line 166, which drops the card.
ExtractJob(job_card, slf, country_code, timestamp) ==
    LET job_title == FirstElemText(job_card.title_elems)
        href == FirstHref(job_card.url_elems)
        job_url == AbsoluteUrl(href[1], slf, country_code)
    IN  IF job_card.sponsored THEN Skipped
        ELSE IF FieldRaises(job_card, "title") THEN Failed
        ELSE IF job_title = None THEN Skipped
        ELSE IF FieldRaises(job_card, "url") THEN Failed
        ELSE IF href = None THEN Skipped
        ELSE IF ~StartsWithHttp(href[1]) /\ "base_urls" \notin DOMAIN slf THEN Failed
        ELSE IF \E field \in {"company", "location", "description", "job_type", "date_posted"} :
                    FieldRaises(job_card, field)
             THEN Failed
        ELSE Extracted(
                 [id |-> Md5(job_url),
                  title |-> job_title[1],
                  url |-> job_url,
                  source |-> "ZipRecruiter",
                  country |-> country_code,
                  timestamp |-> timestamp,
                  salary |-> extract_salary(job_card).value]
                 @@ KeyIf("company", FirstElemText(job_card.company_elems))
                 @@ KeyIf("location", FirstElemText(job_card.location_elems))
                 @@ KeyIf("description", FirstElemText(job_card.description_elems))
                 @@ KeyIf("job_type", FirstElemText(job_card.job_type_elems))
                 @@ KeyIf("date_posted", FirstElemText(job_card.date_elems)))

\* Lines 9-58: the selectors are tried on the document
SelectCards ==
    /\ pc = "select"
    /\ job_cards' = SelectJobCards(args.html_content)
    /\ pc' = IF job_cards' = <<>> THEN "fallback" ELSE "cards"
    /\ UNCHANGED <<args, ret, self, idx, jobs, log, now, main_vars>>

\* Lines 32-47: no selector gave a card, so cards are sought from the titles
FallbackCards ==
    /\ pc = "fallback"
    /\ job_cards' = FallbackJobCards(args.html_content)
    /\ pc' = "cards"
    /\ UNCHANGED <<args, ret, self, idx, jobs, log, now, main_vars>>

\* The clock does not run backwards and is capped at MaxClock
MaxClock == 1

ClockReadings == {t \in {now, now + 1} : t <= MaxClock}

\* As ProcessCard, with no handler around the body of the loop: an
\* exception leaves extract_job_listings
ProcessCardUnguarded ==
    /\ pc = "cards"
    /\ idx < Len(job_cards)
    /\ \E t \in ClockReadings :
          LET r == ExtractJob(job_cards[idx + 1], self, args.country_code, t)
          IN  /\ now' = t
              /\ jobs' = IF r.outcome = "job" THEN Append(jobs, r.job) ELSE jobs
              /\ log' = Append(log, r.outcome)
              /\ pc' = IF r.outcome = "error" THEN "return" ELSE "cards"
              /\ ret' = IF r.outcome = "error" THEN Raise ELSE ret
    /\ idx' = idx + 1
    /\ UNCHANGED <<args, self, job_cards, main_vars>>

\* Lines 61-169: one iteration of "for idx, job_card in enumerate(job_cards)"
ProcessCard ==
    /\ pc = "cards"
    /\ idx < Len(job_cards)
    /\ \E t \in ClockReadings :
          LET r == ExtractJob(job_cards[idx + 1], self, args.country_code, t)
          IN  /\ now' = t
              /\ jobs' = IF r.outcome = "job" THEN Append(jobs, r.job) ELSE jobs
              /\ log' = Append(log, r.outcome)
    /\ idx' = idx + 1
    /\ UNCHANGED <<pc, args, ret, self, job_cards, main_vars>>

\* Line 171
ReturnJobs ==
    /\ pc = "cards"
    /\ idx = Len(job_cards)
    /\ ret' = Return(jobs)
    /\ pc' = "return"
    /\ UNCHANGED <<args, self, job_cards, idx, jobs, log, now, main_vars>>

(***************************************************************************)
(* Specification of extract_job_listings over bounded documents            *)
(***************************************************************************)
\* A sequence of n selector results with text at selector k only
ElemAt(n, k, text) == [j \in 1..n |-> IF j = k THEN Some(text) ELSE None]

NoElem(n) == [j \in 1..n |-> None]

\* A card with every field, found by the first selector of each field
FullCard ==
    [sponsored |-> FALSE,
     title_elems |-> ElemAt(6, 1, <<" ", "Developer", "\n">>),
     url_elems |-> ElemAt(5, 1, <<"https://jobs.example", "/", "job/1">>),
     company_elems |-> ElemAt(4, 1, <<"\n", "Acme">>),
     location_elems |-> ElemAt(4, 2, <<"Leeds">>),
     description_elems |-> ElemAt(4, 1, <<"Python", " ", "role">>),
     salary_elems |-> ElemAt(NumSalarySelectors, 1, <<"£", "30,000">>),
     full_text |-> <<"Developer", " ", "Acme", " ", "£", "30,000">>,
     job_type_elems |-> ElemAt(3, 1, <<"Permanent">>),
     date_elems |-> ElemAt(4, 3, <<"today">>),
     raises |-> {}]

\* A card with a title and a URL only
BareCard ==
    [sponsored |-> FALSE,
     title_elems |-> [j \in 1..6 |-> IF j = 1 THEN Some(<<" ">>) ELSE IF j = 2 THEN Some(<<"Tester">>) ELSE None],
     url_elems |-> [j \in 1..5 |-> IF j = 1 THEN Some(<<>>) ELSE IF j = 3 THEN Some(<<"https://jobs.example", "/", "job/2">>) ELSE None],
     company_elems |-> NoElem(4),
     location_elems |-> NoElem(4),
     description_elems |-> NoElem(4),
     salary_elems |-> NoElem(NumSalarySelectors),
     full_text |-> <<"Tester">>,
     job_type_elems |-> NoElem(3),
     date_elems |-> NoElem(4),
     raises |-> {}]

\* The fields of a card whose lookups may raise
CardFields == {"company", "location", "description", "job_type", "date_posted"}

Cards ==
    {FullCard, BareCard,
     [FullCard EXCEPT !.sponsored = TRUE],
     [FullCard EXCEPT !.title_elems = ElemAt(6, 4, <<"\n", " ">>)],
     [FullCard EXCEPT !.url_elems = ElemAt(5, 2, <<"/", "job/1">>)],
     [BareCard EXCEPT !.url_elems = ElemAt(5, 5, <<"job/1">>)],
     [FullCard EXCEPT !.raises = {[step |-> "get_text"]}, !.salary_elems = NoElem(NumSalarySelectors)]}
        \cup {[FullCard EXCEPT !.raises = {[step |-> "select_one", field |-> f]}] : f \in CardFields}

MaxCards == 2

MaxMatching == 2

MaxTitles == 2

CardLists == SeqUpTo(Cards, MaxCards) \ {<<>>}

\* The document on which the selectors of M match: the first of them the
\* given cards, the others something else
Document(M, cards, R, titles) ==
    [matches |-> [k \in 1..NumCardSelectors |->
                     IF k \notin M THEN <<>>
                     ELSE IF \A j \in M : k <= j THEN cards
                     ELSE <<BareCard, FullCard, BareCard>>],
     select_raises |-> R,
     titles |-> titles]

\* The chains of ancestors of a potential title
AncestorChains ==
    {<<Some(c)>> : c \in Cards}
        \cup {<<None, None, Some(c)>> : c \in Cards}
        \cup {<<None, None, None, Some(FullCard)>>, <<None>>}

\* The documents on which no selector matches
FallbackDocuments ==
    {Document({}, <<>>, {}, titles) : titles \in SeqUpTo(AncestorChains, MaxTitles)}

\* The documents on which one selector matches, the first or the last
ListingDocuments ==
    {Document({k}, cards, {}, <<>>) : k \in {1, NumCardSelectors}, cards \in CardLists}
        \cup FallbackDocuments

\* The documents on which at most MaxMatching selectors match a few cards,
\* and the lookup of one matching selector may raise
SelectorDocuments ==
    UNION {{Document(M, cards, R, titles) :
                cards \in {<<FullCard>>, <<FullCard, BareCard>>},
                R \in {{}} \cup {{k} : k \in M},
                titles \in {<<>>, <<<<Some(BareCard)>>>>}} :
           M \in {Q \in SUBSET (1..NumCardSelectors) : Cardinality(Q) <= MaxMatching}}

\* The scraper object without and with the attribute base_urls, which no
\* code of the class sets, and the country code of the call
Calls ==
    {[scraper |-> EmptyDict, country_code |-> "uk"],
     [scraper |-> [base_urls |-> ("uk" :> "https://www.ziprecruiter.co.uk")], country_code |-> "uk"],
     [scraper |-> [base_urls |-> ("uk" :> "https://www.ziprecruiter.co.uk")], country_code |-> "de"]}

InitOn(documents) ==
    /\ pc = "select"
    /\ \E html_content \in documents, call \in Calls :
          /\ args = [html_content |-> html_content, country_code |-> call.country_code]
          /\ self = call.scraper
    /\ ret = Return(<<>>)
    /\ job_cards = <<>>
    /\ idx = 0
    /\ jobs = <<>>
    /\ log = <<>>
    /\ now = 0
    /\ NoMain

InitListings == InitOn(ListingDocuments)

InitSelectors == InitOn(SelectorDocuments)

NextListings == SelectCards \/ FallbackCards \/ ProcessCard \/ ReturnJobs

SpecListings == InitListings /\ [][NextListings]_vars

SpecSelectors == InitSelectors /\ [][NextListings]_vars

\* A dict without its timestamp
WithoutTimestamp(job) == [k \in DOMAIN job \ {"timestamp"} |-> job[k]]

\* The number of records emitted for the first i cards
Emitted(i) == Cardinality({j \in 1..i : log[j] = "job"})

\* C1: an exception raised while processing one job card never aborts the
\* batch: every card is processed, and the function returns the records of
\* all the cards processed without error, in the order of the cards.
C1_BatchSurvivesCardError ==
    pc = "return" =>
        /\ ~ret.raised
        /\ Len(log) = Len(job_cards)
        /\ ret.value = jobs
        /\ Len(jobs) = Emitted(Len(log))
        /\ \A i \in DOMAIN log :
              LET r == ExtractJob(job_cards[i], self, args.country_code, 0)
              IN  /\ log[i] = r.outcome
                  /\ log[i] = "job" =>
                        WithoutTimestamp(jobs[Emitted(i)]) = WithoutTimestamp(r.job)

\* The first card raised, the second was still processed and is returned
C1_Witness ==
    /\ pc = "return"
    /\ log = <<"error", "job">>
    /\ Len(ret.value) = 1
    /\ ret.value[1].title = <<"Tester">>

\* The card but for its faults
Sound(job_card) == [job_card EXCEPT !.raises = {}]

\* The record but for one key
WithoutKey(job, key) == [k \in DOMAIN job \ {key} |-> job[k]]

\* The faults of the extraction of one field: the key of the field, and the
\* steps that raise
FieldFaults ==
    {[key |-> f, raises |-> {[step |-> "select_one", field |-> f]}] : f \in CardFields}
        \cup {[key |-> "salary", raises |-> {[step |-> "get_text"]}]}

\* C2 (the claim as stated): a failure while extracting one field of a card is
\* caught, leaves only that field absent or null, and the record is still
\* emitted with all its other fields.
C2_FieldFailureKeepsRecord ==
    \A i \in DOMAIN log : \A fault \in FieldFaults :
        LET sound == ExtractJob(Sound(job_cards[i]), self, args.country_code, 0)
        IN  (job_cards[i].raises = fault.raises /\ sound.outcome = "job") =>
               /\ log[i] = "job"
               /\ WithoutKey(WithoutTimestamp(jobs[Emitted(i)]), fault.key)
                     = WithoutKey(WithoutTimestamp(sound.job), fault.key)
               /\ fault.key \in DOMAIN jobs[Emitted(i)] => jobs[Emitted(i)][fault.key] = None

\* A selector matched at least one element of the document
Matched(k) ==
    k \notin args.html_content.select_raises /\ args.html_content.matches[k] # <<>>

\* C6: the job-card selectors are tried in their listed order and the cards
\* used are exactly the elements matched by the first selector that matches
\* at least one element; the title-based fallback is used only when no
\* selector matched anything.
C6_FirstMatchingSelector ==
    /\ pc = "fallback" => \A k \in 1..NumCardSelectors : ~Matched(k)
    /\ pc \in {"cards", "return"} =>
          \A k \in 1..NumCardSelectors :
              (Matched(k) /\ \A j \in 1..(k - 1) : ~Matched(j)) =>
                  job_cards = args.html_content.matches[k]

\* Two selectors match different elements, and the cards are the first's
C6_Witness ==
    /\ pc = "cards"
    /\ \E j, k \in 1..NumCardSelectors :
          /\ j < k
          /\ Matched(j)
          /\ Matched(k)
          /\ args.html_content.matches[j] # args.html_content.matches[k]
          /\ job_cards = args.html_content.matches[j]

(***************************************************************************)
(* post_process_job_data (run_improved_ziprecruiter.py)                    *)
(*                                                                         *)
(* A description is a sequence of words, whitespace and punctuation.       *)
(***************************************************************************)
\* len() of a token
TokLen(tok) ==
    CASE tok \in Whitespace \cup {".", ",", "X", "<bullet>", "-", "5"} -> 1
      [] tok \in {"at", "in", "Ac", "Un", "Jo", "Wo", "Le", "1."} -> 2
      [] tok \in {"Ltd", "Job", "3-5"} -> 3
      [] tok \in {"Acme", "Work", "Join", "role"} -> 4
      [] tok \in {"Leeds", "About", "years", "linux"} -> 5
      [] tok \in {"Python", "office", "skills"} -> 6
      [] tok \in {"Unknown", "Company", "require", "details"} -> 7
      [] tok = "job type" -> 8
      [] tok \in {"Requirements", "requirements"} -> 12
      [] tok \in {"Location:", "developer", "temporary", "rest apis"} -> 9
      [] tok \in {" is hiring", "javascript", "experience"} -> 10
      [] tok = "<12 words>" -> 60
      [] tok = "<100 words>" -> 500
      [] OTHER -> 8

\* len() of a text
RECURSIVE TextLen(_)
TextLen(text) == IF text = <<>> THEN 0 ELSE TokLen(Head(text)) + TextLen(Tail(text))

\* [A-Z] at the start of the token
IsCapitalised(tok) ==
    tok \in {"X", "Acme", "Unknown", "Company", "Ltd", "Job", "About", "Work", "Join", "Leeds", "Python", "Location:"}

\* [A-Z][a-z]+ : a capitalised word of small letters
IsProperWord(tok) ==
    tok \in {"Acme", "Unknown", "Company", "Ltd", "Job", "About", "Work", "Join", "Leeds", "Python"}

\* The tokens outside [A-Za-z0-9\s&]
Punctuation == {".", ",", ":", "Location:", "<bullet>", "-", "*", "1.", "3-5", "<12 words>", "<100 words>"}

\* Ltd|Limited|Inc|LLC|GmbH|AG|plc|Co\.|Company
CompanySuffixes == {"Ltd", "Limited", "Inc", "LLC", "GmbH", "AG", "plc", "Company"}

\* The first two letters of a capitalised word
Prefix2(tok) ==
    CASE tok = "Acme" -> "Ac"
      [] tok = "Unknown" -> "Un"
      [] tok \in {"Job", "Join"} -> "Jo"
      [] tok = "Work" -> "Wo"
      [] tok = "Leeds" -> "Le"
      [] OTHER -> "Xx"

\* Every token of text[i..j] is in [A-Za-z0-9\s&]
NameChars(text, i, j) == \A k \in i..j : text[k] \notin Punctuation

\* [A-Z][A-Za-z0-9\s&]+?(?:<suffix>) anchored at n: the position of the
\* nearest suffix that ends the name, 0 if none
NameEnd(text, n) ==
    LET S == {e \in (n + 1)..Len(text) : text[e] \in CompanySuffixes /\ NameChars(text, n, e)}
    IN  IF n \in DOMAIN text /\ IsCapitalised(text[n]) /\ S # {} THEN Min(S) ELSE 0

\* company_patterns[0]: a preposition, whitespace, and a name that the lazy
\* quantifier ends after its second character unless a suffix follows there
CompanyAfterPreposition(desc) ==
    LET S == {i \in DOMAIN desc :
                 /\ desc[i] \in {"at", "for", "with", "by"}
                 /\ At(desc, i + 1) \in Whitespace
                 /\ IsCapitalised(At(desc, SkipWs(desc, i + 1)))}
        n == SkipWs(desc, Min(S) + 1)
    IN  IF S = {} THEN None
        ELSE IF TokLen(desc[n]) > 1 THEN Some(<<Prefix2(desc[n])>>)
        ELSE IF At(desc, n + 1) \in Whitespace /\ At(desc, n + 2) \in CompanySuffixes
             THEN Some(SubSeq(desc, n, n + 2))
        ELSE Some(<<desc[n]>>)

\* company_patterns[1]: a name with a suffix before " is hiring"; the search
\* takes the leftmost start, the lazy quantifier the nearest end
CompanyBeforeHiring(desc) ==
    LET ends(j) == {e \in (j + 1)..Len(desc) :
                       /\ desc[e] \in CompanySuffixes
                       /\ At(desc, e + 1) = " is hiring"
                       /\ NameChars(desc, j, e)}
        S == {j \in DOMAIN desc : IsCapitalised(desc[j]) /\ desc[j] \notin Punctuation /\ ends(j) # {}}
    IN  IF S = {} THEN None
        ELSE Some(Strip(SubSeq(desc, Min(S), Min(ends(Min(S))))))

\* company_patterns[2]: "About", whitespace, and a name with a suffix
CompanyAfterAbout(desc) ==
    LET S == {i \in DOMAIN desc :
                 /\ desc[i] = "About"
                 /\ At(desc, i + 1) \in Whitespace
                 /\ At(desc, SkipWs(desc, i + 1)) \notin Punctuation
                 /\ NameEnd(desc, SkipWs(desc, i + 1)) # 0}
        n == SkipWs(desc, Min(S) + 1)
    IN  IF S = {} THEN None ELSE Some(Strip(SubSeq(desc, n, NameEnd(desc, n))))

NumCompanyPatterns == 3

\* match.group(1).strip() of company_patterns[k]
CompanyCandidate(desc, k) ==
    IF k = 1 THEN CompanyAfterPreposition(desc)
    ELSE IF k = 2 THEN CompanyBeforeHiring(desc)
    ELSE CompanyAfterAbout(desc)

\* The words that rule a company name out (line 182)
CompanyStopWords == {"apply", "Apply", "role", "position", "job", "Job", "job type", "click", "ideal"}

\* Line 182: the check of a possible company name
PlausibleCompany(name) ==
    /\ 2 < TextLen(name)
    /\ TextLen(name) < 40
    /\ \A i \in DOMAIN name : name[i] \notin CompanyStopWords

\* "value" is the value of key in the dict, None if the key is absent
Get(job, key) == IF key \in DOMAIN job THEN job[key] ELSE None

UnknownCompany == <<"Unknown", " ", "Company">>

HiringCompany == <<"Hiring", " ", "Company">>

\* not job.get("company") or job.get("company") == "Unknown Company" or ...
CompanyMissing(job) == Falsy(Get(job, "company")) \/ job.company = Some(UnknownCompany)

\* job[key] = value
SetKey(job, key, value) == [k \in DOMAIN job \cup {key} |-> IF k = key THEN value ELSE job[k]]

\* Lines 177-184: the first pattern, in order, whose match is a plausible name
CompanyFromDescription(desc) ==
    LET S == {k \in 1..NumCompanyPatterns :
                 CompanyCandidate(desc, k) # None /\ PlausibleCompany(CompanyCandidate(desc, k)[1])}
    IN  IF S = {} THEN None ELSE CompanyCandidate(desc, Min(S))

\* As FillCompany, without the second test at line 187
FillCompanyOnce(job) ==
    IF ~CompanyMissing(job) THEN job
    ELSE LET found == IF Falsy(Get(job, "description")) THEN None
                      ELSE CompanyFromDescription(job.description[1])
         IN  IF found # None THEN SetKey(job, "company", found)
             ELSE SetKey(job, "company", Some(HiringCompany))

\* Lines 165-188: the company of the record
FillCompany(job) ==
    IF ~CompanyMissing(job) THEN job
    ELSE LET found == IF Falsy(Get(job, "description")) THEN None
                      ELSE CompanyFromDescription(job.description[1])
             filled == IF found = None THEN job ELSE SetKey(job, "company", found)
         IN  IF CompanyMissing(filled) THEN SetKey(filled, "company", Some(HiringCompany))
             ELSE filled

\* The tokens that end with in|at|near|from
LocationPrepositions == {"in", "at", "near", "from", "Join"}

\* The tokens of [A-Za-z\s,]+
IsLocationChars(tok) == tok \in Whitespace \cup {","} \/ tok \notin Punctuation \cup {"5"}

\* The end of the run of [A-Za-z\s,] tokens that starts at i (i - 1 if empty)
RECURSIVE LocationRunEnd(_, _)
LocationRunEnd(text, i) ==
    IF i > Len(text) \/ ~IsLocationChars(text[i]) THEN i - 1 ELSE LocationRunEnd(text, i + 1)

\* location_patterns[0]: Location:\s*([A-Za-z\s,]+)
LocationAfterLabel(desc) ==
    LET S == {i \in DOMAIN desc : desc[i] = "Location:" /\ LocationRunEnd(desc, i + 1) > i}
    IN  IF S = {} THEN None
        ELSE Some(Strip(SubSeq(desc, Min(S) + 1, LocationRunEnd(desc, Min(S) + 1))))

\* [A-Z][a-z]+(?:\s+[A-Z][a-z]+)? anchored at n: the position of its last word
ProperNameEnd(text, n) ==
    IF At(text, n + 1) \in Whitespace /\ IsProperWord(At(text, SkipWs(text, n + 1)))
    THEN SkipWs(text, n + 1) ELSE n

\* location_patterns[1]: (?:in|at|near|from)\s+([A-Z][a-z]+(?:\s+[A-Z][a-z]+)?)
LocationAfterPreposition(desc) ==
    LET S == {i \in DOMAIN desc :
                 /\ desc[i] \in LocationPrepositions
                 /\ At(desc, i + 1) \in Whitespace
                 /\ IsProperWord(At(desc, SkipWs(desc, i + 1)))}
        n == SkipWs(desc, Min(S) + 1)
    IN  IF S = {} THEN None ELSE Some(SubSeq(desc, n, ProperNameEnd(desc, n)))

LocationNouns == {"office", "area", "region"}

\* One or more whitespace tokens and then a location noun follow position n
NounFollows(text, n) ==
    At(text, n + 1) \in Whitespace /\ At(text, SkipWs(text, n + 1)) \in LocationNouns

\* location_patterns[2]: ([A-Z][a-z]+(?:\s+[A-Z][a-z]+)?)\s+(?:office|area|region)
LocationBeforeNoun(desc) ==
    LET S == {j \in DOMAIN desc :
                 /\ IsProperWord(desc[j])
                 /\ NounFollows(desc, ProperNameEnd(desc, j)) \/ NounFollows(desc, j)}
        j == Min(S)
    IN  IF S = {} THEN None
        ELSE IF NounFollows(desc, ProperNameEnd(desc, j)) THEN Some(SubSeq(desc, j, ProperNameEnd(desc, j)))
        ELSE Some(<<desc[j]>>)

NumLocationPatterns == 3

\* match.group(1).strip() of location_patterns[k]
LocationCandidate(desc, k) ==
    IF k = 1 THEN LocationAfterLabel(desc)
    ELSE IF k = 2 THEN LocationAfterPreposition(desc)
    ELSE LocationBeforeNoun(desc)

\* The words that rule a location out (line 212)
LocationStopWords == {"salary", "Salary", "about", "About", "job", "Job", "job type", "position", "company", "Company"}

\* Line 212: the check of a possible location
PlausibleLocation(name) ==
    /\ 2 < TextLen(name)
    /\ TextLen(name) < 30
    /\ \A i \in DOMAIN name : name[i] \notin LocationStopWords

UnknownLocation == <<"Unknown", " ", "Location">>

UkRemote == <<"United Kingdom", " ", "-", " ", "Remote">>

\* Lines 191-214: the location of the record
FillLocation(job) ==
    LET missing == Falsy(Get(job, "location")) \/ job.location = Some(UnknownLocation)
        by_country == IF Get(job, "is_uk") = Some(TRUE) THEN SetKey(job, "location", Some(UkRemote)) ELSE job
        desc == job.description[1]
        S == {k \in 1..NumLocationPatterns :
                 LocationCandidate(desc, k) # None /\ PlausibleLocation(LocationCandidate(desc, k)[1])}
    IN  IF ~missing THEN job
        ELSE IF Falsy(Get(job, "description")) \/ S = {} THEN by_country
        ELSE SetKey(by_country, "location", LocationCandidate(desc, Min(S)))

(***************************************************************************)
(* HTML of a description: the sequence of its elements and text nodes,     *)
(* each with its tag, its text, its attribute names and its classes        *)
(***************************************************************************)
HeaderTags == {"h1", "h2", "h3", "h4", "h5", "h6", "strong", "b"}

HeadingTags == {"h1", "h2", "h3", "h4", "h5", "h6"}

AllowedAttrs == {"href", "src", "alt", "title", "class"}

\* The class names that contain one of the allowed words of line 293
AllowedClasses ==
    {"list", "item", "heading", "section", "title", "subtitle", "bold", "italic", "underline",
     "section-title"}

\* Lines 270-302: scripts and styles are removed; of the attributes only
\* the allowed ones are kept, of the classes only those with an allowed
\* word, and a class attribute left without classes is removed
sanitize_html(html_content) ==
    IF Falsy(html_content) THEN Some(<<>>)
    ELSE Some(SelectSeq([i \in DOMAIN html_content[1] |->
                            LET tag == html_content[1][i]
                                classes == IF "class" \in tag.attrs THEN tag.classes \cap AllowedClasses ELSE {}
                            IN  [tag EXCEPT !.attrs = (@ \cap AllowedAttrs) \ (IF classes = {} THEN {"class"} ELSE {}),
                                            !.classes = classes]],
                        LAMBDA node : node.tag \notin {"script", "style"}))

\* Lines 320-345: the text that stands for one element
RenderNode(node) ==
    CASE node.tag = "li" -> <<"<bullet>", " ">> \o Strip(node.text) \o <<"\n">>
      [] node.tag \in HeadingTags -> <<"\n", "\n">> \o Strip(node.text) \o <<"\n", "\n">>
      [] node.tag = "p" -> Strip(node.text) \o <<"\n", "\n">>
      [] node.tag = "br" -> <<"\n">>
      [] OTHER -> node.text

RECURSIVE RenderNodes(_)
RenderNodes(nodes) ==
    IF nodes = <<>> THEN <<>> ELSE RenderNode(Head(nodes)) \o RenderNodes(Tail(nodes))

\* re.sub(r'\n{3,}', '\n\n', text)
RECURSIVE SquashNewlines(_)
SquashNewlines(text) ==
    IF Len(text) < 3 THEN text
    ELSE IF text[1] = "\n" /\ text[2] = "\n" /\ text[3] = "\n" THEN SquashNewlines(Tail(text))
    ELSE <<Head(text)>> \o SquashNewlines(Tail(text))

\* Lines 304-354
format_html_to_text(html_content) ==
    IF Falsy(html_content) THEN Some(<<>>)
    ELSE Some(Strip(SquashNewlines(RenderNodes(html_content[1]))))

(***************************************************************************)
(* extract_skills and extract_experience                                   *)
(***************************************************************************)
common_skills ==
    <<"python", "javascript", "react", "angular", "vue", "node", "django",
      "flask", "java", "c++", "c#", "ruby", "php", "sql", "postgresql",
      "mysql", "mongodb", "aws", "azure", "gcp", "docker", "kubernetes",
      "git", "github", "agile", "scrum", "jira", "html", "css", "sass",
      "typescript", "redux", "express", "spring", "hibernate", "jquery",
      "graphql", "rest api", "microservices", "devops", "ci/cd",
      "tensorflow", "pytorch", "machine learning", "data science",
      "excel", "powerpoint", "word", "project management", "team leadership">>

\* str.title() on the entries of common_skills
Title(skill) ==
    CASE skill = "python" -> "Python" [] skill = "javascript" -> "Javascript"
      [] skill = "react" -> "React" [] skill = "angular" -> "Angular"
      [] skill = "vue" -> "Vue" [] skill = "node" -> "Node"
      [] skill = "django" -> "Django" [] skill = "flask" -> "Flask"
      [] skill = "java" -> "Java" [] skill = "c++" -> "C++"
      [] skill = "c#" -> "C#" [] skill = "ruby" -> "Ruby"
      [] skill = "php" -> "Php" [] skill = "sql" -> "Sql"
      [] skill = "postgresql" -> "Postgresql" [] skill = "mysql" -> "Mysql"
      [] skill = "mongodb" -> "Mongodb" [] skill = "aws" -> "Aws"
      [] skill = "azure" -> "Azure" [] skill = "gcp" -> "Gcp"
      [] skill = "docker" -> "Docker" [] skill = "kubernetes" -> "Kubernetes"
      [] skill = "git" -> "Git" [] skill = "github" -> "Github"
      [] skill = "agile" -> "Agile" [] skill = "scrum" -> "Scrum"
      [] skill = "jira" -> "Jira" [] skill = "html" -> "Html"
      [] skill = "css" -> "Css" [] skill = "sass" -> "Sass"
      [] skill = "typescript" -> "Typescript" [] skill = "redux" -> "Redux"
      [] skill = "express" -> "Express" [] skill = "spring" -> "Spring"
      [] skill = "hibernate" -> "Hibernate" [] skill = "jquery" -> "Jquery"
      [] skill = "graphql" -> "Graphql" [] skill = "rest api" -> "Rest Api"
      [] skill = "microservices" -> "Microservices" [] skill = "devops" -> "Devops"
      [] skill = "ci/cd" -> "Ci/Cd" [] skill = "tensorflow" -> "Tensorflow"
      [] skill = "pytorch" -> "Pytorch" [] skill = "machine learning" -> "Machine Learning"
      [] skill = "data science" -> "Data Science" [] skill = "excel" -> "Excel"
      [] skill = "powerpoint" -> "Powerpoint" [] skill = "word" -> "Word"
      [] skill = "project management" -> "Project Management"
      [] skill = "team leadership" -> "Team Leadership"

\* The entries of common_skills that are substrings of a lower-case token
SkillsInToken(tok) ==
    {tok} \cup (CASE tok = "javascript" -> {"java"}
                  [] tok = "github" -> {"git"}
                  [] tok \in {"postgresql", "mysql"} -> {"sql"}
                  [] tok = "rest apis" -> {"rest api"}
                  [] tok = "password" -> {"word"}
                  [] OTHER -> {})

MultiWordSkills == {"rest api", "machine learning", "data science", "project management", "team leadership"}

\* Lines 672-678: the skill is a substring of the description and, if it
\* has several words, is also found between word boundaries
SkillFound(skill, description_lower) ==
    /\ \E i \in DOMAIN description_lower : skill \in SkillsInToken(description_lower[i])
    /\ skill \in MultiWordSkills => \E i \in DOMAIN description_lower : description_lower[i] = skill

\* Lines 671-678: the loop over common_skills from entry k on
RECURSIVE SkillsFrom(_, _)
SkillsFrom(description_lower, k) ==
    IF k > Len(common_skills) THEN <<>>
    ELSE (IF SkillFound(common_skills[k], description_lower) THEN <<Title(common_skills[k])>> ELSE <<>>)
            \o SkillsFrom(description_lower, k + 1)

\* As extract_skills, returning the list as it is ("return skills")
extract_skills_list(description) ==
    IF description = None THEN Raise
    ELSE Return(Some(SkillsFrom(LowerText(description[1]), 1)))

\* Lines 644-680; description.lower() raises AttributeError on None
extract_skills(description) ==
    IF description = None THEN Raise
    ELSE LET skills == SkillsFrom(LowerText(description[1]), 1)
         IN  Return(IF skills = <<>> THEN None ELSE Some(skills))

ExperienceNumbers == {"5", "3-5"}

ExperienceUnits == {"years", "year", "yrs", "yr"}

\* Lines 682-716: the first number followed by a unit of years; the other
\* three patterns match only where the first one matches too
extract_experience(description) ==
    IF description = None THEN Raise
    ELSE LET text == LowerText(description[1])
             S == {i \in DOMAIN text :
                      text[i] \in ExperienceNumbers /\ At(text, SkipWs(text, i + 1)) \in ExperienceUnits}
             experience == text[Min(S)]
         IN  IF S = {} THEN Return(None)
             ELSE IF experience = "3-5" THEN Return(Some(<<experience, " years of experience">>))
             ELSE Return(Some(<<experience, "+ years of experience">>))

(***************************************************************************)
(* structure_description                                                   *)
(***************************************************************************)
\* The keys of the dict "sections" in insertion order
SectionKeys ==
    <<"about_company", "job_overview", "responsibilities", "requirements",
      "nice_to_have", "benefits", "application_process">>

\* The lower-case words that contain a keyword of the section
SectionKeywords(section_key) ==
    CASE section_key = "about_company" -> {"about us", "who we are"}
      [] section_key = "job_overview" -> {"summary", "overview", "job description"}
      [] section_key = "responsibilities" -> {"responsibilities", "duties", "the role"}
      [] section_key = "requirements" -> {"requirements", "qualifications", "skills", "must have"}
      [] section_key = "nice_to_have" -> {"preferred", "plus", "desirable"}
      [] section_key = "benefits" -> {"benefits", "perks", "salary", "package", "compensation"}
      [] section_key = "application_process" -> {"apply", "how to apply"}

\* "for section_key, keywords in sections.items(): if any(keyword in text
\* ...): matched_section = section_key; break": the index of the first
\* section a keyword of which is in the text, 0 if none
MatchedSection(text_lower) ==
    LET S == {k \in DOMAIN SectionKeys :
                 \E i \in DOMAIN text_lower : text_lower[i] \in SectionKeywords(SectionKeys[k])}
    IN  IF S = {} THEN 0 ELSE Min(S)

\* '\n'.join(texts)
RECURSIVE JoinLines(_)
JoinLines(texts) ==
    IF texts = <<>> THEN <<>>
    ELSE IF Len(texts) = 1 THEN texts[1]
    ELSE texts[1] \o <<"\n">> \o JoinLines(Tail(texts))

\* Lines 410-420: the stripped, non-empty texts of the siblings that follow
\* a header, up to the next potential header
RECURSIVE HeaderContent(_, _)
HeaderContent(nodes, i) ==
    IF i > Len(nodes) \/ nodes[i].tag \in HeaderTags THEN <<>>
    ELSE (IF Strip(nodes[i].text) = <<>> THEN <<>> ELSE <<Strip(nodes[i].text)>>)
            \o HeaderContent(nodes, i + 1)

\* Lines 393-423: the loop over the potential headers from node i on
RECURSIVE HtmlSections(_, _, _)
HtmlSections(nodes, i, section_content) ==
    IF i > Len(nodes) THEN section_content
    ELSE LET header_text == Strip(LowerText(nodes[i].text))
             k == MatchedSection(header_text)
             content == HeaderContent(nodes, i + 1)
         IN  IF /\ nodes[i].tag \in HeaderTags
                /\ header_text # <<>>
                /\ TextLen(header_text) <= 50
                /\ k # 0
                /\ content # <<>>
             THEN HtmlSections(nodes, i + 1, SetKey(section_content, SectionKeys[k], JoinLines(content)))
             ELSE HtmlSections(nodes, i + 1, section_content)

\* str.split('\n')
RECURSIVE SplitLines(_)
SplitLines(text) ==
    LET S == {i \in DOMAIN text : text[i] = "\n"}
    IN  IF S = {} THEN <<text>>
        ELSE <<SubSeq(text, 1, Min(S) - 1)>> \o SplitLines(SubSeq(text, Min(S) + 1, Len(text)))

\* Lines 454-455 and 465-466: the section being collected is saved
SaveSection(section_content, current_section, section_lines) ==
    IF current_section # 0 /\ section_lines # <<>>
    THEN SetKey(section_content, SectionKeys[current_section], JoinLines(section_lines))
    ELSE section_content

\* Lines 436-466: the loop over the lines
RECURSIVE TextSections(_, _, _, _)
TextSections(lines, current_section, section_lines, section_content) ==
    IF lines = <<>> THEN SaveSection(section_content, current_section, section_lines)
    ELSE LET line == Strip(Head(lines))
             k == IF TextLen(line) < 50 THEN MatchedSection(LowerText(line)) ELSE 0
         IN  IF line = <<>> THEN TextSections(Tail(lines), current_section, section_lines, section_content)
             ELSE IF k # 0
                  THEN TextSections(Tail(lines), k, <<>>,
                                    SaveSection(section_content, current_section, section_lines))
             ELSE IF current_section # 0
                  THEN TextSections(Tail(lines), current_section, Append(section_lines, line), section_content)
             ELSE TextSections(Tail(lines), current_section, section_lines, section_content)

BulletMarks == {"<bullet>", "-", "*", "1."}

\* A match of \n\s*<bullet mark> starts at i
BulletAt(text, i) == text[i] = "\n" /\ At(text, SkipWs(text, i + 1)) \in BulletMarks

\* re.split(r'\n\s*•|\n\s*-|\n\s*\*|\n\s*\d+\.', text)
RECURSIVE SplitBullets(_)
SplitBullets(text) ==
    LET S == {i \in DOMAIN text : BulletAt(text, i)}
    IN  IF S = {} THEN <<text>>
        ELSE <<SubSeq(text, 1, Min(S) - 1)>>
                \o SplitBullets(SubSeq(text, SkipWs(text, Min(S) + 1) + 1, Len(text)))

\* Lines 482-484: "• " before each non-blank part after the first
RECURSIVE Bullets(_)
Bullets(parts) ==
    IF parts = <<>> THEN <<>>
    ELSE (IF Strip(Head(parts)) = <<>> THEN <<>> ELSE <<<<"<bullet>", " ">> \o Strip(Head(parts))>>)
            \o Bullets(Tail(parts))

\* The requirement keywords (line 491) that are substrings of a token
RequirementKeywordsIn(tok) ==
    CASE tok = "experience" -> {"experience"}
      [] tok = "skills" -> {"skill"}
      [] tok = "degree" -> {"degree"}
      [] OTHER -> {}

\* The responsibility keywords (line 496) that are substrings of a token
ResponsibilityKeywordsIn(tok) ==
    CASE tok = "developer" -> {"develop"}
      [] tok = "manage" -> {"manage"}
      [] tok = "support" -> {"support"}
      [] OTHER -> {}

\* Lines 472-508: the bullet-point heuristic
BulletSections(structured, description_text) ==
    LET bullet_sections == SplitBullets(description_text)
        with_about == IF TextLen(bullet_sections[1]) > 100
                      THEN SetKey(structured, "about", Strip(bullet_sections[1]))
                      ELSE structured
        bullets == Bullets(Tail(bullet_sections))
        bullets_text == LowerText(JoinLines(bullets))
        req_count == Cardinality(UNION {RequirementKeywordsIn(bullets_text[i]) : i \in DOMAIN bullets_text})
        resp_count == Cardinality(UNION {ResponsibilityKeywordsIn(bullets_text[i]) : i \in DOMAIN bullets_text})
    IN  IF Len(bullet_sections) <= 3 THEN structured
        ELSE IF bullets = <<>> THEN with_about
        ELSE IF req_count > resp_count THEN SetKey(with_about, "requirements", JoinLines(bullets))
        ELSE SetKey(with_about, "responsibilities", JoinLines(bullets))

\* The end of the run of newlines that starts at i
RECURSIVE NewlinesEnd(_, _)
NewlinesEnd(text, i) ==
    IF At(text, i + 1) = "\n" THEN NewlinesEnd(text, i + 1) ELSE i

\* A match of (\n\s*\d+\.|\n\s*•|\n\s*-|\n\s*\*|\n{2,}) starts at i
BreakAt(text, i) == BulletAt(text, i) \/ (text[i] = "\n" /\ At(text, i + 1) = "\n")

\* Lines 520-526: the non-empty parts between the breakpoints, stripped
RECURSIVE CleanSections(_)
CleanSections(text) ==
    LET S == {i \in DOMAIN text : BreakAt(text, i)}
        i == Min(S)
        j == IF BulletAt(text, i) THEN SkipWs(text, i + 1) ELSE NewlinesEnd(text, i)
        first == SubSeq(text, 1, i - 1)
    IN  IF text = <<>> THEN <<>>
        ELSE IF S = {} THEN <<Strip(text)>>
        ELSE (IF first = <<>> THEN <<>> ELSE <<Strip(first)>>)
                \o CleanSections(SubSeq(text, j + 1, Len(text)))

\* len(section.split()) of a token
TokWords(tok) ==
    CASE tok \in Whitespace -> 0
      [] tok = "<12 words>" -> 12
      [] tok = "<100 words>" -> 100
      [] OTHER -> 1

RECURSIVE WordCount(_)
WordCount(text) == IF text = <<>> THEN 0 ELSE TokWords(Head(text)) + WordCount(Tail(text))

\* Lines 542-549: the key a long section is filed under, "" if none
SectionClass(section_lower) ==
    LET has(words) == \E i \in DOMAIN section_lower : section_lower[i] \in words
    IN  IF has({"experience", "skills", "require", "requirements", "qualifications"}) THEN "requirements"
        ELSE IF has({"responsible", "duty", "task", "role", "the role"}) THEN "responsibilities"
        ELSE IF has({"benefits", "salary", "compensation", "package"}) THEN "benefits"
        ELSE IF has({"company", "about us", "who we are"}) THEN "about_company"
        ELSE ""

\* Lines 533-549: the loop over the sections after the first
RECURSIVE ClassifySections(_, _)
ClassifySections(clean_sections, structured) ==
    IF clean_sections = <<>> THEN structured
    ELSE LET section == Head(clean_sections)
             key == SectionClass(LowerText(section))
         IN  IF WordCount(section) < 10 \/ key = ""
             THEN ClassifySections(Tail(clean_sections), structured)
             ELSE ClassifySections(Tail(clean_sections), SetKey(structured, key, section))

\* Lines 511-551: the structure of a description without any section
WholeDescription(description_text) ==
    LET clean_sections == CleanSections(description_text)
    IN  IF TextLen(description_text) < 500 \/ Len(clean_sections) <= 1
        THEN [job_overview |-> Strip(description_text)]
        ELSE ClassifySections(Tail(clean_sections), [job_overview |-> clean_sections[1]])

\* Lines 356-560.  With a description of None the text stages raise and the
\* handler returns {}; they are skipped only when the HTML gave at least
\* two sections.
structure_description(description_text, description_html) ==
    LET from_html == IF Falsy(description_html) THEN EmptyDict
                     ELSE HtmlSections(description_html[1], 1, EmptyDict)
        from_text == IF from_html # EmptyDict THEN from_html
                     ELSE TextSections(SplitLines(description_text[1]), 0, <<>>, EmptyDict)
        with_bullets == IF Cardinality(DOMAIN from_text) < 2
                        THEN BulletSections(from_text, description_text[1])
                        ELSE from_text
    IN  IF description_text = None
        THEN IF Cardinality(DOMAIN from_html) >= 2 THEN from_html ELSE EmptyDict
        ELSE IF with_bullets = EmptyDict /\ description_text[1] # <<>>
             THEN WholeDescription(description_text[1])
        ELSE with_bullets

(***************************************************************************)
(* The loop body of post_process_job_data                                  *)
(***************************************************************************)
\* job.get(key, "")
GetOrEmpty(job, key) == IF key \in DOMAIN job THEN job[key] ELSE Some(<<>>)

\* Lines 217-223
CleanHtml(job) ==
    IF "description_html" \notin DOMAIN job THEN job
    ELSE LET clean_html == sanitize_html(job.description_html)
         IN  SetKey(SetKey(job, "description_html", clean_html),
                    "formatted_description", format_html_to_text(clean_html))

\* Lines 226-231
AddStructuredDescription(job) ==
    LET structured_description ==
            structure_description(job.description, GetOrEmpty(job, "description_html"))
    IN  IF "description" \in DOMAIN job /\ structured_description # EmptyDict
        THEN SetKey(job, "structured_description", structured_description)
        ELSE job

\* Lines 234-243
StandardizeJobType(job) ==
    LET given == extract_job_type(job.job_type, GetOrEmpty(job, "description"))
        guessed == extract_job_type(None, GetOrEmpty(job, "description"))
    IN  IF "job_type" \in DOMAIN job THEN SetKey(job, "standardized_job_type", given)
        ELSE IF guessed # ""
             THEN SetKey(SetKey(job, "standardized_job_type", guessed), "job_type", Some(<<guessed>>))
        ELSE job

\* Lines 246-255: the skills and the experience, each of which raises on a
\* description that is None
AddSkillsAndExperience(job) ==
    LET skills == extract_skills(job.description)
        with_skills == IF skills.value = None THEN job ELSE SetKey(job, "skills", skills.value[1])
        experience == extract_experience(job.description)
    IN  IF "description" \notin DOMAIN job THEN [raised |-> FALSE, job |-> job]
        ELSE IF skills.raised THEN [raised |-> TRUE, job |-> job]
        ELSE IF experience.raised THEN [raised |-> TRUE, job |-> with_skills]
        ELSE [raised |-> FALSE,
              job |-> IF experience.value = None THEN with_skills
                      ELSE SetKey(with_skills, "experience", experience.value[1])]

\* Lines 164-255: one iteration of "for job in jobs": the record as the
\* iteration leaves it, and whether the iteration raised
PostProcessJob(job) ==
    AddSkillsAndExperience(
        StandardizeJobType(AddStructuredDescription(CleanHtml(FillLocation(FillCompany(job))))))

(***************************************************************************)
(* export_to_csv                                                           *)
(***************************************************************************)
\* Lines 40-46
headers ==
    <<"title", "company", "location", "url", "salary", "description",
      "date_posted", "date_posted_iso", "is_remote", "is_uk", "is_europe",
      "region", "country_code", "source", "job_id", "source_id", "id",
      "job_type", "standardized_job_type", "experience", "skills",
      "structured_description">>

\* The keys whose values are held as None or Some(v)
OptionalKeys ==
    {"company", "location", "description", "date_posted", "is_uk", "salary",
     "job_type", "description_html", "formatted_description"}

\* The keys whose values are texts
TextKeys == {"id", "title", "url"}

\* The cell the writer makes of the value of a column: empty for a key that
\* is absent (restval) and for None and "", else <<value>> for str(value);
\* a salary or a flag is None or a value whose str() is not empty
CsvCell(job, key) ==
    IF key \notin DOMAIN job THEN <<>>
    ELSE IF key \in {"is_uk", "salary"} THEN job[key]
    ELSE IF key \in OptionalKeys THEN (IF Falsy(job[key]) THEN <<>> ELSE job[key])
    ELSE IF key \in TextKeys THEN (IF job[key] = <<>> THEN <<>> ELSE <<job[key]>>)
    ELSE IF key = "standardized_job_type" /\ job[key] = "" THEN <<>>
    ELSE <<job[key]>>

\* DictWriter._dict_to_list with extrasaction='ignore' and restval=''
CsvRow(job) == [c \in DOMAIN headers |-> CsvCell(job, headers[c])]

\* As CsvRows with extrasaction='raise': the writer stops at the first
\* record that has a key outside the field names
RECURSIVE CsvRowsStrict(_)
CsvRowsStrict(records) ==
    IF records = <<>> THEN <<>>
    ELSE IF \E k \in DOMAIN Head(records) : \A c \in DOMAIN headers : headers[c] # k THEN <<>>
    ELSE <<CsvRow(Head(records))>> \o CsvRowsStrict(Tail(records))

\* writer.writerows(jobs)
CsvRows(records) == [i \in DOMAIN records |-> CsvRow(records[i])]

(***************************************************************************)
(* main (run_improved_ziprecruiter.py)                                     *)
(***************************************************************************)
\* Lines 95-104.  The scraper is built and run.  In the class of this
\* repository the constructor takes no arguments and scrape is not
\* defined, so the call raises; the runner is written for a scraper that
\* returns a list of job dicts, and both outcomes are modelled.
Scrape(results) ==
    /\ pc = "scrape"
    /\ \/ /\ pc' = "failed"
          /\ ret' = 1
          /\ log' = Append(log, "Error running scraper")
          /\ UNCHANGED <<jobs, scraped>>
       \/ \E result \in results :
             /\ jobs' = result
             /\ scraped' = result
             /\ pc' = "post_process"
             /\ UNCHANGED <<ret, log>>
    /\ UNCHANGED <<args, self, job_cards, idx, now, json_file, csv_file>>

\* Lines 107 and 163-255: one iteration of the loop of post_process_job_data;
\* an exception leaves the loop and reaches the handler of main (line 145)
PostProcess ==
    /\ pc = "post_process"
    /\ idx < Len(jobs)
    /\ LET r == PostProcessJob(jobs[idx + 1])
       IN  /\ jobs' = [jobs EXCEPT ![idx + 1] = r.job]
           /\ pc' = IF r.raised THEN "failed" ELSE pc
           /\ ret' = IF r.raised THEN 1 ELSE ret
           /\ log' = IF r.raised THEN Append(log, "Error running scraper") ELSE log
    /\ idx' = idx + 1
    /\ UNCHANGED <<args, self, job_cards, now, main_vars>>

\* As DumpJson, run without waiting for the loop of post_process_job_data
DumpJsonEarly ==
    /\ pc = "post_process"
    /\ json_file' = Some(jobs)
    /\ pc' = "export"
    /\ UNCHANGED <<args, ret, self, job_cards, idx, jobs, log, now, scraped, csv_file>>

\* Lines 258 and 113-116: post_process_job_data has returned and the list is
\* written to the JSON file
DumpJson ==
    /\ pc = "post_process"
    /\ idx = Len(jobs)
    /\ json_file' = Some(jobs)
    /\ pc' = "export"
    /\ UNCHANGED <<args, ret, self, job_cards, idx, jobs, log, now, scraped, csv_file>>

\* Lines 119-120 and 34-57
ExportCsv ==
    /\ pc = "export"
    /\ csv_file' = Some([header |-> headers, rows |-> CsvRows(jobs)])
    /\ pc' = "summary"
    /\ UNCHANGED <<args, ret, self, job_cards, idx, jobs, log, now, scraped, json_file>>

\* Lines 122-143: the summary is printed from the list, which is only read
Summarize ==
    /\ pc = "summary"
    /\ log' = Append(log, "Scraping Summary")
    /\ ret' = 0
    /\ pc' = "done"
    /\ UNCHANGED <<args, self, job_cards, idx, jobs, now, main_vars>>

(***************************************************************************)
(* The runs of main                                                        *)
(***************************************************************************)
\* Descriptions of a record
WorkAtAcme == <<"Work", " ", "at", " ", "Acme", " ", "Ltd", ".">>

AcmeIsHiring == <<"Acme", " ", "Ltd", " is hiring", "\n", "Python", " ", "developer", ".">>

UnknownIsHiring == <<"Unknown", " ", "Company", " is hiring">>

JoinAtX == <<"About", " ", "Job", " ", "Ltd", ".", " ", "Join", " ", "at", " ", "X", " ", "Ltd">>

AboutJob == <<"About", " ", "Job", " ", "Ltd">>

LeedsOffice ==
    <<"Location:", " ", "Leeds", ",", " ", "UK", "\n", "job type", ":", " ", "temporary", ".",
      " ", "5", " ", "years", " ", "Python">>

\* A record as extract_job_listings makes it of the full and of the bare card
FullJob == ExtractJob(FullCard, EmptyDict, "uk", 0).job

BareJob == ExtractJob(BareCard, EmptyDict, "uk", 0).job

\* The HTML of a description: a heading, a paragraph and a script
RequirementsHtml ==
    <<[tag |-> "h2", text |-> <<"Requirements">>, attrs |-> {"class", "style"}, classes |-> {"heading", "btn"}],
      [tag |-> "p", text |-> <<"Python", " ", "developer">>, attrs |-> {"class", "id"}, classes |-> {"btn"}],
      [tag |-> "script", text |-> <<"X">>, attrs |-> {}, classes |-> {}]>>

\* The records the scraper may return
ScrapedRecords ==
    {FullJob, BareJob,
     SetKey(BareJob, "description", None),
     SetKey(BareJob, "description", Some(<<>>)),
     SetKey(BareJob, "company", Some(<<>>)),
     SetKey(SetKey(BareJob, "company", None), "description", Some(WorkAtAcme)),
     SetKey(BareJob, "description", Some(AcmeIsHiring)),
     SetKey(SetKey(BareJob, "company", Some(UnknownCompany)), "description", Some(UnknownIsHiring)),
     SetKey(BareJob, "description", Some(JoinAtX)),
     SetKey(BareJob, "description", Some(AboutJob)),
     SetKey(SetKey(BareJob, "is_uk", Some(TRUE)), "description", Some(LeedsOffice)),
     SetKey(SetKey(FullJob, "is_uk", Some(TRUE)), "location", Some(UnknownLocation)),
     SetKey(FullJob, "description_html", Some(RequirementsHtml))}

MaxJobs == 2

\* The lists the scraper may return
ScrapeResults == SeqUpTo(ScrapedRecords, MaxJobs)

Init ==
    /\ pc = "scrape"
    /\ args = EmptyDict
    /\ ret = None
    /\ self = EmptyDict
    /\ job_cards = <<>>
    /\ idx = 0
    /\ jobs = <<>>
    /\ log = <<>>
    /\ now = 0
    /\ NoMain

Next == Scrape(ScrapeResults) \/ PostProcess \/ DumpJson \/ ExportCsv \/ Summarize

Spec == Init /\ [][Next]_vars

(***************************************************************************)
(* Properties of the runs of main                                          *)
(***************************************************************************)
\* post_process_job_data has returned
Returned == pc \in {"export", "summary", "done"}

\* The loop of post_process_job_data has ended, by return or by exception
LoopEnded == pc \in {"export", "summary", "done"} \/ (pc = "failed" /\ scraped # <<>>)

\* C3: a failure while enriching one record does not abort the batch: the
\* loop of post_process_job_data visits every record of the list, every
\* record whose enrichment does not fail is post-processed, and the list is
\* returned rather than an exception raised.
C3_BatchSurvivesRecordError ==
    LoopEnded =>
        /\ Returned
        /\ idx = Len(scraped)
        /\ \A i \in DOMAIN jobs :
              ~PostProcessJob(scraped[i]).raised => jobs[i] = PostProcessJob(scraped[i]).job

C5_RecordsIndependent ==
    LoopEnded =>
        \A i \in DOMAIN jobs :
            ~PostProcessJob(scraped[i]).raised => jobs[i] = PostProcessJob(scraped[i]).job

\* The value of a column in a record: <<v>> for the value v that is written,
\* <<>> for None and for the empty string
ColumnValue(job, key) ==
    IF key \in {"is_uk", "salary"} THEN job[key]
    ELSE IF key \in {"company", "location", "description", "date_posted", "job_type"}
    THEN (IF job[key] = None \/ job[key] = Some(<<>>) THEN <<>> ELSE job[key])
    ELSE IF key \in {"id", "title", "url"} THEN (IF job[key] = <<>> THEN <<>> ELSE <<job[key]>>)
    ELSE IF key = "standardized_job_type" THEN (IF job[key] = "" THEN <<>> ELSE <<job[key]>>)
    ELSE <<job[key]>>

\* C7: the CSV file has one header row with exactly the 22 listed columns in
\* order, then one row per record in list order; each row has one cell per
\* listed column, which holds the record's value for the column and is
\* empty if the record lacks the column, so keys outside the list are ignored.
C7_CsvExport ==
    csv_file # None =>
        LET header == csv_file[1].header
            rows == csv_file[1].rows
        IN  /\ header = <<"title", "company", "location", "url", "salary", "description",
                          "date_posted", "date_posted_iso", "is_remote", "is_uk", "is_europe",
                          "region", "country_code", "source", "job_id", "source_id", "id",
                          "job_type", "standardized_job_type", "experience", "skills",
                          "structured_description">>
            /\ Len(header) = 22
            /\ Len(rows) = Len(jobs)
            /\ \A i \in DOMAIN rows :
                  /\ Len(rows[i]) = 22
                  /\ \A c \in 1..22 :
                        rows[i][c] = IF header[c] \in DOMAIN jobs[i]
                                     THEN ColumnValue(jobs[i], header[c]) ELSE <<>>

\* Two records are written, each with keys outside the header; the first
\* lacks the location, the second has it
C7_Witness ==
    /\ csv_file # None
    /\ Len(csv_file[1].rows) = 2
    /\ "location" \notin DOMAIN jobs[1]
    /\ csv_file[1].rows[1][3] = <<>>
    /\ {"country", "timestamp"} \subseteq DOMAIN jobs[1]
    /\ "location" \in DOMAIN jobs[2]
    /\ csv_file[1].rows[2][3] = jobs[2].location

\* The plausible names that the company patterns yield from the description
PlausibleNames(job) ==
    IF Falsy(Get(job, "description")) THEN {}
    ELSE {CompanyCandidate(job.description[1], k) : k \in
             {n \in 1..NumCompanyPatterns :
                 /\ CompanyCandidate(job.description[1], n) # None
                 /\ PlausibleCompany(CompanyCandidate(job.description[1], n)[1])}}

\* C10 as stated: after post_process_job_data returns, every record has a
\* non-empty company that is not "Unknown Company"; a missing company is a
\* plausible name extracted from the description if a pattern yields one,
\* else "Hiring Company".
C10_CompanyFromAnyPlausibleName ==
    Returned =>
        \A i \in DOMAIN jobs :
            /\ ~CompanyMissing(jobs[i])
            /\ CompanyMissing(scraped[i]) =>
                  IF PlausibleNames(scraped[i]) # {}
                  THEN jobs[i].company \in PlausibleNames(scraped[i])
                  ELSE jobs[i].company = Some(HiringCompany)

\* C10 as amended: after post_process_job_data returns, every record has a
\* non-empty company that is not "Unknown Company"; a missing company is the
\* name of the first pattern that yields a plausible name, unless that name
\* is "Unknown Company", else "Hiring Company"; any other company is kept.
C10_CompanyFilled ==
    Returned =>
        \A i \in DOMAIN jobs :
            LET names == PlausibleNames(scraped[i])
                first == CHOOSE k \in 1..NumCompanyPatterns :
                             /\ CompanyCandidate(scraped[i].description[1], k) \in names
                             /\ \A n \in 1..(k - 1) :
                                   CompanyCandidate(scraped[i].description[1], n) \notin names
                name == CompanyCandidate(scraped[i].description[1], first)
            IN  /\ "company" \in DOMAIN jobs[i]
                /\ jobs[i].company \notin {None, Some(<<>>), Some(UnknownCompany)}
                /\ IF ~CompanyMissing(scraped[i]) THEN jobs[i].company = scraped[i].company
                   ELSE IF names # {} /\ name # Some(UnknownCompany) THEN jobs[i].company = name
                   ELSE jobs[i].company = Some(HiringCompany)

\* One record took its company from the description; in the other the
\* plausible name of the description is "Unknown Company"
C10_Witness ==
    /\ pc = "done"
    /\ Len(jobs) = 2
    /\ CompanyMissing(scraped[1])
    /\ jobs[1].company = Some(<<"Acme", " ", "Ltd">>)
    /\ Get(scraped[2], "company") = Some(UnknownCompany)
    /\ PlausibleNames(scraped[2]) = {Some(UnknownCompany)}
    /\ jobs[2].company = Some(HiringCompany)

(***************************************************************************)
(* Specification of extract_skills over bounded inputs                     *)
(***************************************************************************)
MaxSkillLen == 3

SkillVocabulary == {"Python", "JavaScript", "github", "rest apis", "REST API", "password", "developer", " "}

SkillDescriptions == {None} \cup {Some(t) : t \in SeqUpTo(SkillVocabulary, MaxSkillLen)}

InitSkills ==
    /\ pc = "call"
    /\ args \in [description : SkillDescriptions]
    /\ ret = Return(None)
    /\ NoListing

CallExtractSkills ==
    /\ pc = "call"
    /\ ret' = extract_skills(args.description)
    /\ pc' = "return"
    /\ UNCHANGED <<args, listing_vars>>

SpecSkills == InitSkills /\ [][CallExtractSkills]_vars

\* The positions in the table of the entries whose title-cased form is name
\* and which are substrings of the lower-cased description
TableEntries(name, description) ==
    {k \in DOMAIN common_skills :
        /\ Title(common_skills[k]) = name
        /\ \E i \in DOMAIN description : common_skills[k] \in SkillsInToken(Lower(description[i]))}

MaxBlocks == 3

StructBlocks ==
    {<<"Requirements", "\n">>,
     <<"Benefits", "\n">>,
     <<"Python", " ", "developer", "\n">>,
     <<"\n", "-", " ", "experience">>,
     <<"\n", " ", "*", " ", "developer", "\n", "1.", " ", "support", "\n", "<bullet>">>,
     <<"<100 words>">>,
     <<"\n", "\n", "skills", " ", "<12 words>">>,
     <<" ">>}

\* The concatenation of a sequence of blocks
RECURSIVE Concat(_)
Concat(blocks) == IF blocks = <<>> THEN <<>> ELSE Head(blocks) \o Concat(Tail(blocks))

StructTexts == {None} \cup {Some(Concat(blocks)) : blocks \in SeqUpTo(StructBlocks, MaxBlocks)}

\* An element or a text node without attributes
Node(tag, text) == [tag |-> tag, text |-> text, attrs |-> {}, classes |-> {}]

StructHtmls ==
    {None,
     Some(<<>>),
     Some(<<Node("p", <<"Python", " ", "developer">>)>>),
     Some(<<Node("h2", <<"Requirements">>)>>),
     Some(<<Node("h2", <<"Requirements">>), Node("p", <<"Python">>), Node("", <<" ", "developer", "\n">>)>>),
     Some(<<Node("h2", <<" ", "Requirements">>), Node("p", <<"Python">>),
            Node("b", <<"<12 words>">>), Node("p", <<"role">>),
            Node("strong", <<"Benefits">>), Node("", <<"\n">>), Node("p", <<"salary">>)>>)}

InitStructure ==
    /\ pc = "call"
    /\ args \in [description_text : StructTexts, description_html : StructHtmls]
    /\ ret = EmptyDict
    /\ NoListing

CallStructureDescription ==
    /\ pc = "call"
    /\ ret' = structure_description(args.description_text, args.description_html)
    /\ pc' = "return"
    /\ UNCHANGED <<args, listing_vars>>

SpecStructure == InitStructure /\ [][CallStructureDescription]_vars

\* The sections that the header parsing of the HTML yields
SectionsOfHtml(description_html) ==
    IF Falsy(description_html) THEN EmptyDict ELSE HtmlSections(description_html[1], 1, EmptyDict)

\* C12: structure_description returns a dictionary on every input; for a
\* non-empty description text the dictionary has at least one section, and
\* it is empty only when the text is empty (or None) and the HTML yields no
\* section.
C12_StructureResult ==
    pc = "return" =>
        /\ ~Falsy(args.description_text) => ret # EmptyDict
        /\ ret = EmptyDict =>
              /\ Falsy(args.description_text)
              /\ SectionsOfHtml(args.description_html) = EmptyDict

\* C16: the stages have fixed priority.  The sections of the HTML are used
\* when there is at least one, and then the text lines are not parsed; the
\* text lines are parsed when the HTML gave no section; the bullet-point
\* heuristic is applied to fewer than two sections only; the description as
\* a whole is used only when no section exists after that.
C16_StagePriority ==
    pc = "return" =>
        LET from_html == SectionsOfHtml(args.description_html)
            description_text == args.description_text[1]
            from_text == TextSections(SplitLines(description_text), 0, <<>>, EmptyDict)
            first == IF from_html # EmptyDict THEN from_html ELSE from_text
            second == IF Cardinality(DOMAIN first) < 2
                      THEN BulletSections(first, description_text) ELSE first
        IN  /\ DOMAIN from_html \subseteq DOMAIN ret
            /\ args.description_text # None =>
                  ret = IF second = EmptyDict /\ description_text # <<>>
                        THEN WholeDescription(description_text) ELSE second

(***************************************************************************)
(* Identity of the records of extract_job_listings                         *)
(***************************************************************************)
\* C13: the records returned by one call of extract_job_listings have
\* pairwise different ids
C13_UniqueIds ==
    pc = "return" =>
        \A i, j \in DOMAIN ret.value :
            i # j => ret.value[i].id # ret.value[j].id

\* C14: every record returned by extract_job_listings has a non-empty
\* title, a url that starts with "http", the MD5 of that url as id, the
\* source "ZipRecruiter", the country_code of the call as country, and a
\* salary key holding None or a dict
C14_RecordShape ==
    pc = "return" =>
        \A i \in DOMAIN ret.value :
            LET job == ret.value[i]
            IN  /\ {"id", "title", "url", "source", "country", "salary"} \subseteq DOMAIN job
                /\ job.title # <<>>
                /\ StartsWithHttp(job.url)
                /\ job.id = Md5(job.url)
                /\ job.source = "ZipRecruiter"
                /\ job.country = args.country_code
                /\ job.salary # None => "text" \in DOMAIN job.salary[1]

\* Two records come back, the first from a relative URL made absolute with
\* the default base and carrying a salary, the second without a salary
C14_Witness ==
    /\ pc = "return"
    /\ args.country_code = "de"
    /\ Len(ret.value) = 2
    /\ ret.value[1].url = <<"https://www.ziprecruiter.com", "/", "job/1">>
    /\ ret.value[1].salary # None
    /\ ret.value[2].url = <<"https://www.ziprecruiter.com", "/", "job/1">>
    /\ ret.value[2].salary = None

(***************************************************************************)
(* Precedence of the sources of extract_job_type                           *)
(***************************************************************************)
\* The type a text matches, 0 when it is empty, None or matches nothing
TextType(text) == IF Falsy(text) THEN 0 ELSE FirstType(LowerText(text[1]))

\* The type the first deciding context of the description matches
ContextType(description_text) ==
    IF Falsy(description_text) THEN 0
    ELSE FirstContextType(JobTypeContexts(LowerText(description_text[1]), 1))

\* C15: a match in job_type_text decides whatever the description says;
\* when job_type_text matches nothing, a match inside a type context of the
\* description decides before a match anywhere else in the description
C15_Precedence ==
    pc = "return" =>
        LET by_text == TextType(args.job_type_text)
            by_context == ContextType(args.description_text)
            by_whole == TextType(args.description_text)
        IN  /\ by_text # 0 => ret = StandardTypes[by_text]
            /\ (by_text = 0 /\ by_context # 0) => ret = StandardTypes[by_context]
            /\ (by_text = 0 /\ by_context = 0 /\ by_whole # 0) => ret = StandardTypes[by_whole]

\* job_type_text matches nothing, and the context names another type than
\* the one the description names first
C15_Witness ==
    /\ pc = "return"
    /\ args.job_type_text = Some(<<"engineer">>)
    /\ args.description_text = Some(<<"permanent", "job type", "part-time">>)
    /\ ret = "Part-time"

====
